---- MODULE Spec2Model ----
(***************************************************************************)
(* Administrative operations of the university application:                *)
(* AdminController (grade derivation, grouping, partitioning, removal,     *)
(* clearing) and the AdminView handlers that drive it.                     *)
(*                                                                         *)
(* Marks and averages are Python floats in the program.  They are modelled *)
(* as exact rationals [num, den] with den > 0, so that an average such as  *)
(* 84.5 is distinguished from 85.                                          *)
(***************************************************************************)
EXTENDS Integers, Sequences, FiniteSets, TLC

\* ------------------------------------------------------------------ bounds

\* Largest number of students in the store.
MaxStudents == 3

\* Largest number of enrolled subjects in the whole store.
MaxEnrolments == 3

\* Largest denominator of a mark given to the grade function.
MaxDen == 2

\* Largest mark given to the grade function.
MaxMark == 100

\* The number of subjects a student can hold.
MaxSubjects == 2

\* Marks that enrolled subjects carry.
SubjectMarks == {40, 60, 90}

\* ------------------------------------------------------------ rationals

Rat(n, d) == [num |-> n, den |-> d]

\* a >= k, for a rational a and an integer k
Geq(a, k) == a.num >= k * a.den

\* a < b, a = b for rationals
RatLess(a, b) == a.num * b.den < b.num * a.den

RatEq(a, b) == a.num * b.den = b.num * a.den

RatLeq(a, b) == ~RatLess(b, a)

\* --------------------------------------------------------------- state

VARIABLES
    database,      \* Database: the stored students, in load_all_students order
    dialog,        \* the AlertDialog the page shows: "none" when there is none
    student_list,  \* AdminView.student_list.rows: the ids of the rows
    errors,        \* messages given to display_error by the last handler
    successes,     \* messages given to display_success by the last handler
    renderer,      \* the renderer the last handler called, "none" if none
    grade_groups,  \* argument of display_grade_groups
    passing,       \* first argument of display_partitioned_students
    failing,       \* second argument of display_partitioned_students
    ret,           \* return value of the last controller call
    op,            \* the last handler and its inputs
    students,      \* the store as the last handler found it
    dbcalls,       \* Database methods the last handler called
    mark1, mark2,  \* arguments of _get_grade_from_mark
    grade1, grade2, \* its return values, "none" before the call
    view_pc,       \* the AppView call that has opened its dialog and not returned
    confirm_result, \* the variable result of the last confirm_action call
    input_result,  \* the variable result of the last get_input call
    text_field,    \* the text in the field of the get_input dialog
    response,      \* the button the user pressed in the last dialog, or "none"
    confirm_ret,   \* what the last confirm_action call returned, as text
    input_ret,     \* what the last get_input call returned
    is_register_mode, \* LoginView.is_register_mode
    name_field, email_field, password_field, confirm_password_field,
                   \* the values of the fields of LoginView
    current_view,  \* AppView.current_view
    app_current_student, \* AppView.current_student
    current_student, \* StudentView.current_student
    before,        \* current_student as the last handler found it
    change_fields, \* the values of the three fields of the password dialog
    raised,        \* the exception that left the last handler, "none" if none
    choice,        \* the argument of the last handle_choice call
    choice_ret,    \* what the last handle_choice call returned, as text
    mark_color,    \* what _get_mark_color returned for mark1
    grade_color,   \* what _get_grade_color returned for grade1
    form,          \* LoginView: which fields are visible, and the labels
    tree,          \* the paths of the files under the current directory
    output_file,   \* the argument output_file of collect_files_content
    out_file       \* the paths of the records written to the output file

vars == <<database, dialog, student_list, errors, successes, renderer,
          grade_groups, passing, failing, ret, op, students, dbcalls,
          mark1, mark2, grade1, grade2,
          view_pc, confirm_result, input_result, text_field, response,
          confirm_ret, input_ret, is_register_mode, name_field, email_field,
          password_field, confirm_password_field, current_view,
          app_current_student, current_student, before,
          change_fields, raised, choice, choice_ret, mark_color,
          grade_color, form, tree, output_file, out_file>>

adminVars == <<database, dialog, student_list, errors, successes, renderer,
               grade_groups, passing, failing, ret, op, students, dbcalls,
               raised>>

gradeVars == <<mark1, mark2, grade1, grade2, mark_color, grade_color>>

dialogVars == <<view_pc, confirm_result, input_result, text_field, response,
                confirm_ret, input_ret>>

fieldVars == <<name_field, email_field, password_field,
               confirm_password_field>>

modeVars == <<is_register_mode, form>>

loginVars == <<modeVars, fieldVars, current_view, app_current_student>>

menuVars == <<choice, choice_ret>>

collectVars == <<tree, output_file, out_file>>

studentVars == <<current_student, before, change_fields>>

\* The state that the handlers of the admin view leave alone.
notAdminVars ==
    <<gradeVars, dialogVars, loginVars, studentVars, menuVars, collectVars>>

\* -------------------------------------------------------- grade function

Grades == {"HD", "D", "C", "P", "Z"}

\* Mutant: the boundary mark 85 falls to the lower grade.
get_grade_from_mark_strict(mark) ==
    IF mark.num > 85 * mark.den THEN "HD"
    ELSE IF Geq(mark, 75) THEN "D"
    ELSE IF Geq(mark, 65) THEN "C"
    ELSE IF Geq(mark, 50) THEN "P"
    ELSE "Z"

\* Mutant: the letters of D and C are swapped.
get_grade_from_mark_swapped(mark) ==
    IF Geq(mark, 85) THEN "HD"
    ELSE IF Geq(mark, 75) THEN "C"
    ELSE IF Geq(mark, 65) THEN "D"
    ELSE IF Geq(mark, 50) THEN "P"
    ELSE "Z"

_get_grade_from_mark(mark) ==
    IF Geq(mark, 85) THEN "HD"
    ELSE IF Geq(mark, 75) THEN "D"
    ELSE IF Geq(mark, 65) THEN "C"
    ELSE IF Geq(mark, 50) THEN "P"
    ELSE "Z"

\* ------------------------------------------------------------- students

RECURSIVE SumSeq(_)
SumSeq(s) == IF s = <<>> THEN 0 ELSE Head(s) + SumSeq(Tail(s))

\* A student: its id and the marks of its subjects, in enrolment order.
Student(id, subjects) == [id |-> id, subjects |-> subjects]

\* Student.get_average_mark: the mean of the subject marks, 0 without subjects.
get_average_mark(student) ==
    IF student.subjects = <<>> THEN Rat(0, 1)
    ELSE Rat(SumSeq(student.subjects), Len(student.subjects))

\* Mutant: a student passes from the average mark 65.
is_passing_from_credit(student) == Geq(get_average_mark(student), 65)

\* Student.is_passing: the average mark is at least 50.
is_passing(student) == Geq(get_average_mark(student), 50)

\* ------------------------------------------------------------- database

\* Database.load_all_students: every stored student, in stored order.
load_all_students(db) == db

\* Database.remove_student: whether a student with that id is stored.
remove_student_found(db, student_id) ==
    \E i \in 1..Len(db) : db[i].id = student_id

\* Database.remove_student: the store without the student with that id.
remove_student_store(db, student_id) ==
    SelectSeq(db, LAMBDA s : s.id # student_id)

\* Database.clear_all: the empty store.
clear_all(db) == <<>>

\* --------------------------------------------- list.sort(key, reverse=True)

\* Mutant: an ascending sort.
RECURSIVE insert_ascending(_, _)
insert_ascending(student, sorted) ==
    IF sorted = <<>> THEN <<student>>
    ELSE IF RatLess(get_average_mark(student), get_average_mark(Head(sorted)))
         THEN <<student>> \o sorted
         ELSE <<Head(sorted)>> \o insert_ascending(student, Tail(sorted))

\* Mutant: a descending sort that puts a student before its equals.
RECURSIVE insert_unstable(_, _)
insert_unstable(student, sorted) ==
    IF sorted = <<>> THEN <<student>>
    ELSE IF RatLeq(get_average_mark(Head(sorted)), get_average_mark(student))
         THEN <<student>> \o sorted
         ELSE <<Head(sorted)>> \o insert_unstable(student, Tail(sorted))

\* One step of the sort: the student goes behind every student whose average
\* mark is greater than or equal to its own (Python's sort is stable, and
\* reverse=True keeps the order of equal keys).
RECURSIVE insert_reverse(_, _)
insert_reverse(student, sorted) ==
    IF sorted = <<>> THEN <<student>>
    ELSE IF RatLess(get_average_mark(Head(sorted)), get_average_mark(student))
         THEN <<student>> \o sorted
         ELSE <<Head(sorted)>> \o insert_reverse(student, Tail(sorted))

RECURSIVE sort_loop(_, _)
sort_loop(rest, sorted) ==
    IF rest = <<>> THEN sorted
    ELSE sort_loop(Tail(rest), insert_reverse(Head(rest), sorted))

\* list.sort(key=lambda s: s.get_average_mark(), reverse=True)
sort_reverse(list) == sort_loop(list, <<>>)

\* ------------------------------------------------------------- grouping

EmptyGroups == [g \in {} |-> <<>>]

\* Mutant: every student is appended to the bucket of the first student.
group_one_first_bucket(student, groups) ==
    IF DOMAIN groups = {}
    THEN (_get_grade_from_mark(get_average_mark(student)) :> <<student>>)
    ELSE [g \in DOMAIN groups |-> Append(groups[g], student)]

\* Mutant: a student without subjects is left out of the grouping.
group_one_skip_unenrolled(student, groups) ==
    LET grade == _get_grade_from_mark(get_average_mark(student))
        with_key == IF grade \notin DOMAIN groups
                    THEN groups @@ (grade :> <<>>)
                    ELSE groups
    IN  IF student.subjects = <<>> THEN groups
        ELSE [with_key EXCEPT ![grade] = Append(@, student)]

\* Body of the grouping loop: the student is appended to the bucket of the
\* grade of its average mark, and the bucket is created when it is new.
group_one(student, groups) ==
    LET avg_mark == get_average_mark(student)
        grade == _get_grade_from_mark(avg_mark)
        with_key == IF grade \notin DOMAIN groups
                    THEN groups @@ (grade :> <<>>)
                    ELSE groups
    IN  [with_key EXCEPT ![grade] = Append(@, student)]

RECURSIVE group_loop(_, _)
group_loop(rest, groups) ==
    IF rest = <<>> THEN groups
    ELSE group_loop(Tail(rest), group_one(Head(rest), groups))

\* The mapping group_students gives to display_grade_groups.
build_grade_groups(list) ==
    LET groups == group_loop(list, EmptyGroups)
    IN  [g \in DOMAIN groups |-> sort_reverse(groups[g])]

\* --------------------------------------------------------- partitioning

\* Mutant: a student passes only with an average above 50.
passing_list_strict(list) ==
    sort_reverse(SelectSeq(list, LAMBDA s : ~RatLeq(get_average_mark(s), Rat(50, 1))))

passing_list(list) == sort_reverse(SelectSeq(list, LAMBDA s : is_passing(s)))

failing_list(list) == sort_reverse(SelectSeq(list, LAMBDA s : ~is_passing(s)))

\* ------------------------------------------------------------ the views

\* A displayed message: its text and the student id formatted into it
\* (NoId when the text has none).
NoId == 0

Msg(text, id) == [text |-> text, id |-> id]

Op(name, student_id, answer) ==
    [name |-> name, student_id |-> student_id, answer |-> answer]

\* Ids a caller or a text field can give: NoId is the empty entry, and
\* MaxStudents + 1 is an id no student has.
IdInputs == 0..(MaxStudents + 1)

\* AdminView._format_subject_details raises for a student with subjects:
\* the loop header reads the loop variable itself (subject.subjects).
format_subject_details_raises(student) == student.subjects # <<>>

\* The rows display_all_students has appended when it returns: the loop
\* stops at the first student whose row cannot be built.
RECURSIVE rows_appended(_)
rows_appended(list) ==
    IF list = <<>> THEN <<>>
    ELSE IF format_subject_details_raises(Head(list)) THEN <<>>
    ELSE <<Head(list).id>> \o rows_appended(Tail(list))

display_all_students_raises(list) ==
    \E i \in 1..Len(list) : format_subject_details_raises(list[i])

\* Mutant: the loop of display_all_students has no except clause.
display_all_students_catches_nothing(exception) == FALSE

\* "except Exception as e" of display_all_students: every exception that
\* building the rows can raise is an Exception.
display_all_students_catches(exception) ==
    exception \in {"UnboundLocalError", "Exception"}

\* AdminView.display_all_students(list): the rows, the errors it displays,
\* the dialog it leaves, given the dialog before the call, and the exception
\* that leaves it.
display_all_students(list, dlg) ==
    IF list = <<>>
    THEN [rows |-> <<>>, errors |-> <<Msg("No students found", NoId)>>,
          dialog |-> "error", raised |-> "none"]
    ELSE IF display_all_students_raises(list)
    THEN IF display_all_students_catches("UnboundLocalError")
         THEN [rows |-> rows_appended(list),
               errors |-> <<Msg("Error displaying students", NoId)>>,
               dialog |-> "error", raised |-> "none"]
         ELSE [rows |-> rows_appended(list), errors |-> <<>>, dialog |-> dlg,
               raised |-> "UnboundLocalError"]
    ELSE [rows |-> rows_appended(list), errors |-> <<>>, dialog |-> dlg,
          raised |-> "none"]

\* ------------------------------------------------------ initial states

RECURSIVE MarkLists(_)
MarkLists(k) ==
    IF k = 0 THEN {<<>>}
    ELSE MarkLists(k - 1) \cup [1..k -> SubjectMarks]

\* The subject lists of n students that hold at most budget subjects.
RECURSIVE Enrolments(_, _)
Enrolments(n, budget) ==
    IF n = 0 THEN {<<>>}
    ELSE UNION {{Append(rest, ml) : rest \in Enrolments(n - 1, budget - Len(ml))}
                : ml \in MarkLists(budget)}

Stores ==
    UNION {{[i \in 1..n |-> Student(i, e[i])] : e \in Enrolments(n, MaxEnrolments)}
           : n \in 0..MaxStudents}

MarkInputs ==
    UNION {{Rat(n, d) : n \in 0..(MaxMark * d)} : d \in 1..MaxDen}

AdminStart ==
    /\ dialog = "none"
    /\ student_list = <<>>
    /\ errors = <<>>
    /\ successes = <<>>
    /\ renderer = "none"
    /\ grade_groups = EmptyGroups
    /\ passing = <<>>
    /\ failing = <<>>
    /\ ret = "None"
    /\ op = Op("display", NoId, FALSE)
    /\ students = <<>>
    /\ dbcalls = <<>>
    /\ raised = "none"

GradeStart ==
    /\ grade1 = "none"
    /\ grade2 = "none"
    /\ mark_color = "none"
    /\ grade_color = "none"

\* The local variable result of get_input before the user has answered, and
\* after Cancel: None.
NoneText == 0 - 1

\* No call of AppView.get_input or confirm_action has been made.
DialogStart ==
    /\ view_pc = "idle"
    /\ confirm_result = FALSE
    /\ input_result = NoneText
    /\ text_field = NoId
    /\ response = "none"
    /\ confirm_ret = "None"
    /\ input_ret = NoneText

\* The value None of current_student.
NoStudent ==
    [id |-> NoId, name |-> "", email |-> "", password |-> <<>>,
     subjects |-> <<>>]

\* Mutant: the name field is never hidden again.
LoginForm_name_stays_visible(register_mode) ==
    [name_visible |-> TRUE,
     confirm_visible |-> register_mode,
     mode_text |-> IF register_mode THEN "Register" ELSE "Login",
     mode_button |-> IF register_mode THEN "Switch to Login"
                     ELSE "Switch to Register",
     submit_button |-> IF register_mode THEN "Register" ELSE "Login"]

\* The visibility of the two fields of registration and the texts of the
\* title and of the two buttons, as LoginView.__init__ and switch_mode set
\* them for a mode.
LoginForm(register_mode) ==
    [name_visible |-> register_mode,
     confirm_visible |-> register_mode,
     mode_text |-> IF register_mode THEN "Register" ELSE "Login",
     mode_button |-> IF register_mode THEN "Switch to Login"
                     ELSE "Switch to Register",
     submit_button |-> IF register_mode THEN "Register" ELSE "Login"]

\* No call of AdminController.handle_choice has been made.
MenuStart ==
    /\ choice = <<>>
    /\ choice_ret = "None"

\* collect_files_content has not been called.
CollectStart ==
    /\ tree = {}
    /\ output_file = <<>>
    /\ out_file = <<>>

\* LoginView.__init__ and AppView.__init__: login mode, empty fields.
LoginStart ==
    /\ is_register_mode = FALSE
    /\ form = LoginForm(FALSE)
    /\ name_field = ""
    /\ email_field = ""
    /\ password_field = <<>>
    /\ confirm_password_field = <<>>
    /\ current_view = "login"
    /\ app_current_student = NoStudent

\* The fields of the password dialog of the student view when it opens.
NoFields ==
    [old_password |-> <<>>, password |-> <<>>, confirm_password |-> <<>>]

\* StudentView.__init__: no student is displayed.
StudentStart ==
    /\ current_student = NoStudent
    /\ before = NoStudent
    /\ change_fields = NoFields

Init ==
    /\ database \in Stores
    /\ AdminStart
    /\ mark1 = Rat(0, 1)
    /\ mark2 = Rat(0, 1)
    /\ GradeStart
    /\ DialogStart
    /\ LoginStart
    /\ StudentStart
    /\ MenuStart
    /\ CollectStart

InitGrade ==
    /\ database = <<>>
    /\ AdminStart
    /\ mark1 \in MarkInputs
    /\ mark2 \in MarkInputs
    /\ GradeStart
    /\ DialogStart
    /\ LoginStart
    /\ StudentStart
    /\ MenuStart
    /\ CollectStart

\* ------------------------------------------------------ AdminController

\* Mutant: the empty store is not told apart.
has_students_always(list) == TRUE

\* The test "if not students" of group_students and partition_students.
has_students(list) == list # <<>>

\* AdminController.group_students
group_students ==
    LET list == load_all_students(database)
    IN  /\ students' = list
        /\ dbcalls' = <<"load_all_students">>
        /\ IF ~has_students(list)
           THEN /\ errors' = <<Msg("No students found", NoId)>>
                /\ dialog' = "error"
                /\ renderer' = "none"
                /\ grade_groups' = EmptyGroups
           ELSE /\ errors' = <<>>
                /\ dialog' = "grade_groups"
                /\ renderer' = "display_grade_groups"
                /\ grade_groups' = build_grade_groups(list)
        /\ successes' = <<>>
        /\ passing' = <<>>
        /\ failing' = <<>>
        /\ ret' = "None"
        /\ raised' = "none"
        /\ UNCHANGED <<database, student_list>>

\* AdminController.partition_students
partition_students ==
    LET list == load_all_students(database)
    IN  /\ students' = list
        /\ dbcalls' = <<"load_all_students">>
        /\ IF ~has_students(list)
           THEN /\ errors' = <<Msg("No students found", NoId)>>
                /\ dialog' = "error"
                /\ renderer' = "none"
                /\ passing' = <<>>
                /\ failing' = <<>>
           ELSE /\ errors' = <<>>
                /\ dialog' = "partition"
                /\ renderer' = "display_partitioned_students"
                /\ passing' = passing_list(list)
                /\ failing' = failing_list(list)
        /\ successes' = <<>>
        /\ grade_groups' = EmptyGroups
        /\ ret' = "None"
        /\ raised' = "none"
        /\ UNCHANGED <<database, student_list>>

\* Mutant: removal always reports success.
remove_student_result_true(found) == "True"

\* What remove_student returns for the result of Database.remove_student.
remove_student_result(found) == IF found THEN "True" ELSE "False"

\* AdminController.remove_student(student_id); typed is what get_input
\* returns, asked for only when no id is given.
remove_student(student_id, typed) ==
    LET sid == IF student_id # NoId THEN student_id ELSE typed
        found == remove_student_found(database, sid)
        result == remove_student_result(found)
    IN  /\ op' = Op("remove_student", sid, FALSE)
        /\ students' = database
        /\ dbcalls' = <<"remove_student">>
        /\ database' = remove_student_store(database, sid)
        /\ ret' = result
        /\ raised' = "none"
        /\ IF result = "True"
           THEN /\ successes' = <<Msg("removed successfully!", sid)>>
                /\ errors' = <<>>
                /\ dialog' = dialog
           ELSE /\ successes' = <<>>
                /\ errors' = <<Msg("not found!", sid)>>
                /\ dialog' = "error"
        /\ renderer' = "none"
        /\ grade_groups' = EmptyGroups
        /\ passing' = <<>>
        /\ failing' = <<>>
        /\ UNCHANGED student_list

\* Mutant: the answer of confirm_action is not looked at.
clear_database_proceeds_always(answer) == TRUE

\* The test of clear_database on what confirm_action returned.
clear_database_proceeds(answer) == answer

\* AdminController.clear_database; answer is what confirm_action returns.
clear_database(answer) ==
    /\ op' = Op("clear_database", NoId, answer)
    /\ students' = database
    /\ IF clear_database_proceeds(answer)
       THEN /\ database' = clear_all(database)
            /\ dbcalls' = <<"clear_all">>
            /\ successes' = <<Msg("Database cleared successfully!", NoId)>>
            /\ ret' = "True"
       ELSE /\ database' = database
            /\ dbcalls' = <<>>
            /\ successes' = <<Msg("Operation cancelled", NoId)>>
            /\ ret' = "False"
    /\ raised' = "none"
    /\ errors' = <<>>
    /\ renderer' = "none"
    /\ grade_groups' = EmptyGroups
    /\ passing' = <<>>
    /\ failing' = <<>>
    /\ UNCHANGED <<dialog, student_list>>

\* ----------------------------------------------------- AdminView handlers

\* A handler that calls neither the store nor the view's interface methods.
Quiet ==
    /\ students' = database
    /\ dbcalls' = <<>>
    /\ errors' = <<>>
    /\ successes' = <<>>
    /\ renderer' = "none"
    /\ grade_groups' = EmptyGroups
    /\ passing' = <<>>
    /\ failing' = <<>>
    /\ ret' = "None"
    /\ raised' = "none"

handle_show_students ==
    LET list == load_all_students(database)
        shown == display_all_students(list, dialog)
    IN  /\ dialog = "none"
        /\ op' = Op("handle_show_students", NoId, FALSE)
        /\ students' = list
        /\ dbcalls' = <<"load_all_students">>
        /\ student_list' = shown.rows
        /\ errors' = shown.errors
        /\ dialog' = shown.dialog
        /\ renderer' = "display_all_students"
        /\ successes' = <<>>
        /\ grade_groups' = EmptyGroups
        /\ passing' = <<>>
        /\ failing' = <<>>
        /\ ret' = "None"
        /\ raised' = shown.raised
        /\ UNCHANGED database
        /\ UNCHANGED notAdminVars

handle_group_students ==
    /\ dialog = "none"
    /\ op' = Op("handle_group_students", NoId, FALSE)
    /\ group_students
    /\ UNCHANGED notAdminVars

handle_partition_students ==
    /\ dialog = "none"
    /\ op' = Op("handle_partition_students", NoId, FALSE)
    /\ partition_students
    /\ UNCHANGED notAdminVars

handle_remove_student ==
    /\ dialog = "none"
    /\ op' = Op("handle_remove_student", NoId, FALSE)
    /\ dialog' = "remove"
    /\ Quiet
    /\ UNCHANGED <<database, student_list>>
    /\ UNCHANGED notAdminVars

\* The Remove button of the dialog; student_id is the text of the field.
handle_remove_confirm(student_id) ==
    LET found == remove_student_found(database, student_id)
        left == remove_student_store(database, student_id)
        shown == display_all_students(load_all_students(left), "none")
    IN  /\ dialog = "remove"
        /\ op' = Op("handle_remove_confirm", student_id, FALSE)
        /\ students' = database
        /\ IF student_id = NoId
           THEN /\ dialog' = "none"
                /\ dbcalls' = <<>>
                /\ errors' = <<>>
                /\ successes' = <<>>
                /\ renderer' = "none"
                /\ raised' = "none"
                /\ UNCHANGED <<database, student_list>>
           ELSE IF found
           THEN /\ database' = left
                /\ dbcalls' = <<"remove_student", "load_all_students">>
                /\ successes' = <<Msg("removed successfully!", student_id)>>
                /\ student_list' = shown.rows
                /\ errors' = shown.errors
                /\ dialog' = shown.dialog
                /\ renderer' = "display_all_students"
                /\ raised' = shown.raised
           ELSE /\ database' = left
                /\ dbcalls' = <<"remove_student">>
                /\ successes' = <<>>
                /\ errors' = <<Msg("not found!", student_id)>>
                /\ dialog' = "error"
                /\ renderer' = "none"
                /\ raised' = "none"
                /\ UNCHANGED student_list
        /\ grade_groups' = EmptyGroups
        /\ passing' = <<>>
        /\ failing' = <<>>
        /\ ret' = "None"

handle_remove_cancel ==
    /\ dialog = "remove"
    /\ op' = Op("handle_remove_cancel", NoId, FALSE)
    /\ dialog' = "none"
    /\ Quiet
    /\ UNCHANGED <<database, student_list>>
    /\ UNCHANGED notAdminVars

handle_clear_database ==
    /\ dialog = "none"
    /\ op' = Op("handle_clear_database", NoId, FALSE)
    /\ dialog' = "clear"
    /\ Quiet
    /\ UNCHANGED <<database, student_list>>
    /\ UNCHANGED notAdminVars

\* The Clear All button of the confirmation dialog.
handle_clear_confirm ==
    /\ dialog = "clear"
    /\ op' = Op("handle_clear_confirm", NoId, TRUE)
    /\ students' = database
    /\ dialog' = "none"
    /\ database' = clear_all(database)
    /\ dbcalls' = <<"clear_all">>
    /\ successes' = <<Msg("Database cleared successfully!", NoId)>>
    /\ student_list' = <<>>
    /\ errors' = <<>>
    /\ renderer' = "none"
    /\ grade_groups' = EmptyGroups
    /\ passing' = <<>>
    /\ failing' = <<>>
    /\ ret' = "None"
    /\ raised' = "none"
    /\ UNCHANGED notAdminVars

\* The Cancel button of the confirmation dialog.
handle_clear_cancel ==
    /\ dialog = "clear"
    /\ op' = Op("handle_clear_cancel", NoId, FALSE)
    /\ dialog' = "none"
    /\ Quiet
    /\ UNCHANGED <<database, student_list>>
    /\ UNCHANGED notAdminVars

\* The OK button of the error dialog (AppView.display_error).
close_dlg ==
    /\ dialog = "error"
    /\ op' = Op("close_dlg", NoId, FALSE)
    /\ dialog' = "none"
    /\ Quiet
    /\ UNCHANGED <<database, student_list>>
    /\ UNCHANGED notAdminVars

\* The Close button of the grade groups and of the partition dialog.
close_dialog ==
    /\ dialog \in {"grade_groups", "partition"}
    /\ op' = Op("close_dialog", NoId, FALSE)
    /\ dialog' = "none"
    /\ Quiet
    /\ UNCHANGED <<database, student_list>>
    /\ UNCHANGED notAdminVars

\* ------------------------------------------------------- specifications

\* The Remove button with any text in the field.
click_remove_confirm ==
    \E student_id \in IdInputs :
        handle_remove_confirm(student_id) /\ UNCHANGED notAdminVars

\* A call of AdminController.remove_student from the idle application, with
\* an id or without one (and then with what get_input returns).
call_remove_student ==
    \E student_id \in IdInputs, typed \in IdInputs :
        /\ dialog = "none"
        /\ (student_id # NoId => typed = NoId)
        /\ remove_student(student_id, typed)
        /\ UNCHANGED notAdminVars

\* A call of AdminController.clear_database from the idle application.
call_clear_database ==
    \E answer \in BOOLEAN :
        /\ dialog = "none"
        /\ clear_database(answer)
        /\ UNCHANGED notAdminVars

Next ==
    \/ handle_show_students
    \/ handle_group_students
    \/ handle_partition_students
    \/ handle_remove_student
    \/ click_remove_confirm
    \/ handle_remove_cancel
    \/ handle_clear_database
    \/ handle_clear_confirm
    \/ handle_clear_cancel
    \/ close_dlg
    \/ close_dialog
    \/ call_remove_student
    \/ call_clear_database

Spec == Init /\ [][Next]_vars

\* Mutant: the colour of a credit starts at 60.
_get_mark_color_credit_at_60(mark) ==
    IF Geq(mark, 85) THEN "GREEN"
    ELSE IF Geq(mark, 75) THEN "BLUE"
    ELSE IF Geq(mark, 60) THEN "ORANGE"
    ELSE IF Geq(mark, 50) THEN "ORANGE_700"
    ELSE "RED"

\* AdminView._get_mark_color
_get_mark_color(mark) ==
    IF Geq(mark, 85) THEN "GREEN"
    ELSE IF Geq(mark, 75) THEN "BLUE"
    ELSE IF Geq(mark, 65) THEN "ORANGE"
    ELSE IF Geq(mark, 50) THEN "ORANGE_700"
    ELSE "RED"

\* AdminView._get_grade_color: the dictionary, and BLACK for any other key.
_get_grade_color(grade) ==
    CASE grade = "HD" -> "GREEN"
      [] grade = "D" -> "BLUE"
      [] grade = "C" -> "ORANGE"
      [] grade = "P" -> "ORANGE_700"
      [] grade = "Z" -> "RED"
      [] OTHER -> "BLACK"

\* Two calls of _get_grade_from_mark, on mark1 and on mark2, and the two
\* colours of mark1: by the mark, and by the grade of the mark.
get_grades ==
    /\ grade1 = "none"
    /\ grade1' = _get_grade_from_mark(mark1)
    /\ grade2' = _get_grade_from_mark(mark2)
    /\ mark_color' = _get_mark_color(mark1)
    /\ grade_color' = _get_grade_color(_get_grade_from_mark(mark1))
    /\ UNCHANGED <<mark1, mark2>>
    /\ UNCHANGED <<adminVars, dialogVars, loginVars, studentVars, menuVars,
                   collectVars>>

NextGrade == get_grades

SpecGrade == InitGrade /\ [][NextGrade]_vars

\* ------------------------------------------------------ AppView dialogs

\* What the calls of get_input and confirm_action leave alone.
notDialogVars ==
    <<database, student_list, errors, successes, renderer, grade_groups,
      passing, failing, ret, op, students, dbcalls, gradeVars, loginVars,
      studentVars, raised, menuVars, collectVars>>

\* The texts a user can type into the field of the get_input dialog.
Texts == IdInputs

\* AppView.confirm_action up to its return statement: result is False, the
\* dialog is put on the page and opened, and page.update() comes back at once.
confirm_action_call ==
    /\ view_pc = "idle"
    /\ view_pc' = "confirm_action"
    /\ confirm_result' = FALSE
    /\ dialog' = "confirm_action"
    /\ response' = "none"
    /\ confirm_ret' = "None"
    /\ input_ret' = NoneText
    /\ UNCHANGED <<input_result, text_field>>
    /\ UNCHANGED notDialogVars

\* handle_response of confirm_action: a click on Yes or No, on the page's
\* event thread, while the dialog is open.
handle_response(button) ==
    /\ dialog = "confirm_action"
    /\ confirm_result' = (button = "Yes")
    /\ dialog' = "none"
    /\ response' = button
    /\ UNCHANGED <<view_pc, input_result, text_field, confirm_ret, input_ret>>
    /\ UNCHANGED notDialogVars

click_yes_or_no == \E button \in {"Yes", "No"} : handle_response(button)

\* The return statement of confirm_action: whatever result holds by now.
confirm_action_return ==
    /\ view_pc = "confirm_action"
    /\ view_pc' = "idle"
    /\ confirm_ret' = IF confirm_result THEN "True" ELSE "False"
    /\ UNCHANGED <<dialog, confirm_result, input_result, text_field, response,
                   input_ret>>
    /\ UNCHANGED notDialogVars

\* AppView.get_input up to its return statement: result is None, a new text
\* field and its dialog are put on the page and opened.
get_input_call ==
    /\ view_pc = "idle"
    /\ view_pc' = "get_input"
    /\ input_result' = NoneText
    /\ text_field' = NoId
    /\ dialog' = "get_input"
    /\ response' = "none"
    /\ confirm_ret' = "None"
    /\ input_ret' = NoneText
    /\ UNCHANGED confirm_result
    /\ UNCHANGED notDialogVars

\* The user edits the text field of the open get_input dialog.
type_text(text) ==
    /\ dialog = "get_input"
    /\ text_field' = text
    /\ UNCHANGED <<dialog, view_pc, confirm_result, input_result, response,
                   confirm_ret, input_ret>>
    /\ UNCHANGED notDialogVars

type_some_text == \E text \in Texts : type_text(text)

\* close_dlg of get_input: a click on OK or Cancel while the dialog is open.
get_input_close_dlg(button) ==
    /\ dialog = "get_input"
    /\ input_result' = IF button = "OK" THEN text_field ELSE NoneText
    /\ dialog' = "none"
    /\ response' = button
    /\ UNCHANGED <<view_pc, confirm_result, text_field, confirm_ret, input_ret>>
    /\ UNCHANGED notDialogVars

click_ok_or_cancel ==
    \E button \in {"OK", "Cancel"} : get_input_close_dlg(button)

\* The return statement of get_input: result, or "" when result is None.
get_input_return ==
    /\ view_pc = "get_input"
    /\ view_pc' = "idle"
    /\ input_ret' = IF input_result # NoneText THEN input_result ELSE NoId
    /\ UNCHANGED <<dialog, confirm_result, input_result, text_field, response,
                   confirm_ret>>
    /\ UNCHANGED notDialogVars

InitDialog ==
    /\ database = <<>>
    /\ AdminStart
    /\ mark1 = Rat(0, 1)
    /\ mark2 = Rat(0, 1)
    /\ GradeStart
    /\ DialogStart
    /\ LoginStart
    /\ StudentStart
    /\ MenuStart
    /\ CollectStart

NextDialog ==
    \/ confirm_action_call
    \/ click_yes_or_no
    \/ confirm_action_return
    \/ get_input_call
    \/ type_some_text
    \/ click_ok_or_cancel
    \/ get_input_return

SpecDialog == InitDialog /\ [][NextDialog]_vars

\* ---------------------------------------------------------- StudentView

\* Student.MAX_SUBJECTS
MAX_SUBJECTS == MaxSubjects

\* The ids a subject can get and a user can type; one more than a student
\* can hold, so that an id that is not enrolled always exists.
SubjectIds == 1..(MAX_SUBJECTS + 1)

\* The mark an enrolment draws. The handlers of the student view only show
\* marks, so one value stands for the random draw.
EnrolMarks == {60}

Subject(id, mark) == [id |-> id, mark |-> mark]

Upper == {"A", "H"}

Lower == {"b", "c", "d", "e", "l", "o"}

Digit == {"1", "2", "3", "4"}

\* The number of letters a text starts with.
RECURSIVE LeadingLetters(_)
LeadingLetters(text) ==
    IF text = <<>> \/ Head(text) \notin Upper \cup Lower THEN 0
    ELSE 1 + LeadingLetters(Tail(text))

\* PASSWORD_PATTERN.match: an uppercase letter first, at least five letters,
\* then three or more digits up to the end.
PASSWORD_PATTERN_match(text) ==
    LET n == LeadingLetters(text)
    IN  /\ n >= 5
        /\ text[1] \in Upper
        /\ Len(text) - n >= 3
        /\ \A i \in (n + 1)..Len(text) : text[i] \in Digit

Abcde123 == <<"A", "b", "c", "d", "e", "1", "2", "3">>

Hello4321 == <<"H", "e", "l", "l", "o", "4", "3", "2", "1">>

\* The passwords a student can hold.
ValidPasswords == {Abcde123, Hello4321}

\* The texts a user can type into a password field.
PasswordInputs ==
    ValidPasswords \cup
    { <<>>,
      <<"b", "b", "c", "d", "e", "1", "2", "3">>,
      <<"A", "b", "c", "d", "1", "2", "3">>,
      <<"A", "b", "c", "d", "e", "1", "2">>,
      <<"A", "b", "c", "d", "e", "1", "2", "3", "b">> }

\* The texts a user can type into the field of the old password.
OldPasswordInputs == ValidPasswords \cup {<<>>}

\* Student.remove_subject: whether a subject with this id is enrolled.
has_subject(student, subject_id) ==
    \E i \in 1..Len(student.subjects) : student.subjects[i].id = subject_id

\* Student.remove_subject: the student without the subject with this id.
remove_subject(student, subject_id) ==
    [student EXCEPT
        !.subjects = SelectSeq(@, LAMBDA subject : subject.id # subject_id)]

\* Database.update_student when it succeeds: the stored copy of the student
\* with this id is replaced.
update_student(db, student) ==
    [i \in 1..Len(db) |-> IF db[i].id = student.id THEN student ELSE db[i]]

\* Database.get_student_by_email, NoStudent when there is none.
get_student_by_email(db, email) ==
    IF \E i \in 1..Len(db) : db[i].email = email
    THEN db[CHOOSE i \in 1..Len(db) : db[i].email = email]
    ELSE NoStudent

\* What the handlers of the student view leave alone.
notStudentVars ==
    <<student_list, renderer, grade_groups, passing, failing, ret, gradeVars,
      dialogVars, modeVars, fieldVars, current_view, raised, menuVars,
      collectVars>>

\* The messages and database calls of one handler of the student view.
StudentLog(name, id, errs, succs, calls) ==
    /\ op' = Op(name, id, FALSE)
    /\ students' = database
    /\ before' = current_student
    /\ errors' = errs
    /\ successes' = succs
    /\ dbcalls' = calls

\* An assignment to the student object that StudentView.current_student
\* and AppView.current_student both refer to.
SetStudent(student) ==
    /\ current_student' = student
    /\ app_current_student' = student

\* Mutant: enrolment is refused only above the limit.
enrol_limit_reached_late(student) == Len(student.subjects) > MAX_SUBJECTS

\* The test of handle_enroll: len(student.subjects) >= Student.MAX_SUBJECTS.
enrol_limit_reached(student) == Len(student.subjects) >= MAX_SUBJECTS

\* SubjectController.enrol_subject: a subject with an id the student does
\* not hold yet and a random mark is appended and the student is saved.
enrol_subject ==
    \E id \in SubjectIds, mark \in EnrolMarks, ok \in BOOLEAN :
        /\ ~has_subject(current_student, id)
        /\ LET student == [current_student EXCEPT
                              !.subjects = Append(@, Subject(id, mark))]
           IN  /\ SetStudent(student)
               /\ IF ok
                  THEN /\ database' = update_student(database, student)
                       /\ dialog' = "enrolment"
                       /\ StudentLog("handle_enroll", id, <<>>, <<>>,
                                     <<"update_student">>)
                  ELSE /\ database' = database
                       /\ dialog' = "error"
                       /\ StudentLog("handle_enroll", id,
                                     <<Msg("Failed to enrol subject", NoId)>>,
                                     <<>>, <<"update_student">>)

\* handle_enroll of StudentView.display
handle_enroll ==
    /\ dialog = "none"
    /\ IF enrol_limit_reached(current_student)
       THEN /\ dialog' = "error"
            /\ StudentLog("handle_enroll", NoId,
                          <<Msg("Maximum subjects already enrolled!", NoId)>>,
                          <<>>, <<>>)
            /\ UNCHANGED <<database, current_student, app_current_student>>
       ELSE enrol_subject
    /\ change_fields' = NoFields
    /\ UNCHANGED notStudentVars

\* close_dialog of display_enrolment_result
close_enrolment_dialog ==
    /\ dialog = "enrolment"
    /\ dialog' = "none"
    /\ StudentLog("close_dialog", NoId, <<>>, <<>>, <<>>)
    /\ UNCHANGED <<database, current_student, app_current_student>>
    /\ change_fields' = NoFields
    /\ UNCHANGED notStudentVars

\* handle_remove of StudentView.display
handle_remove_subject ==
    /\ dialog = "none"
    /\ IF current_student.subjects = <<>>
       THEN /\ dialog' = "error"
            /\ StudentLog("handle_remove", NoId,
                          <<Msg("No subjects to remove!", NoId)>>, <<>>, <<>>)
       ELSE /\ dialog' = "remove_subject"
            /\ StudentLog("handle_remove", NoId, <<>>, <<>>, <<>>)
    /\ UNCHANGED <<database, current_student, app_current_student>>
    /\ change_fields' = NoFields
    /\ UNCHANGED notStudentVars

\* handle_cancel of handle_remove
handle_remove_subject_cancel ==
    /\ dialog = "remove_subject"
    /\ dialog' = "none"
    /\ StudentLog("handle_cancel", NoId, <<>>, <<>>, <<>>)
    /\ UNCHANGED <<database, current_student, app_current_student>>
    /\ change_fields' = NoFields
    /\ UNCHANGED notStudentVars

\* Mutant: a subject that is not enrolled counts as removed.
remove_subject_found_always(student, subject_id) == TRUE

\* The return value of Student.remove_subject.
remove_subject_found(student, subject_id) == has_subject(student, subject_id)

\* handle_remove_confirm of handle_remove, with subject_id the text of the
\* field and ok the return value of Database.update_student.
handle_remove_subject_confirm(subject_id, ok) ==
    /\ dialog = "remove_subject"
    /\ IF subject_id = NoId
       THEN /\ dialog' = "none"
            /\ StudentLog("handle_remove_confirm", subject_id, <<>>, <<>>,
                          <<>>)
            /\ UNCHANGED <<database, current_student, app_current_student>>
       ELSE IF remove_subject_found(current_student, subject_id)
       THEN LET student == remove_subject(current_student, subject_id)
            IN  /\ SetStudent(student)
                /\ IF ok
                   THEN /\ database' = update_student(database, student)
                        /\ dialog' = "none"
                        /\ StudentLog("handle_remove_confirm", subject_id,
                                      <<>>,
                                      <<Msg("Subject removed successfully!",
                                            subject_id)>>,
                                      <<"update_student">>)
                   ELSE /\ database' = database
                        /\ dialog' = "error"
                        /\ StudentLog("handle_remove_confirm", subject_id,
                                      <<Msg("Failed to update database!",
                                            NoId)>>,
                                      <<>>, <<"update_student">>)
       ELSE /\ dialog' = "error"
            /\ StudentLog("handle_remove_confirm", subject_id,
                          <<Msg("Subject not found!", subject_id)>>, <<>>,
                          <<>>)
            /\ UNCHANGED <<database, current_student, app_current_student>>
    /\ change_fields' = NoFields
    /\ UNCHANGED notStudentVars

click_remove_subject ==
    \E subject_id \in {NoId} \cup SubjectIds, ok \in BOOLEAN :
        handle_remove_subject_confirm(subject_id, ok)

\* handle_change_password of StudentView.display
handle_change_password ==
    /\ dialog = "none"
    /\ dialog' = "change_password"
    /\ change_fields' = NoFields
    /\ StudentLog("handle_change_password", NoId, <<>>, <<>>, <<>>)
    /\ UNCHANGED <<database, current_student, app_current_student>>
    /\ UNCHANGED notStudentVars

\* handle_cancel of handle_change_password
handle_change_cancel ==
    /\ dialog = "change_password"
    /\ dialog' = "none"
    /\ StudentLog("handle_cancel", NoId, <<>>, <<>>, <<>>)
    /\ UNCHANGED <<database, current_student, app_current_student>>
    /\ change_fields' = NoFields
    /\ UNCHANGED notStudentVars

\* Mutant: the old password is not compared.
old_password_wrong_never(old_password, student) == FALSE

\* The test old_password != self.current_student.password.
old_password_wrong(old_password, student) == old_password # student.password

\* Mutant: the current password is accepted as the new one.
new_password_reused_never(new_password, student) == FALSE

\* The test new_password == self.current_student.password.
new_password_reused(new_password, student) == new_password = student.password

\* The error that handle_change_confirm reports for these three fields,
\* "" when the change goes ahead.
change_password_error(old_password, new_password, confirm_password, student) ==
    IF old_password = <<>> \/ new_password = <<>> \/ confirm_password = <<>>
    THEN "All fields are required!"
    ELSE IF new_password # confirm_password THEN "Passwords do not match!"
    ELSE IF old_password_wrong(old_password, student)
    THEN "Old passwords error!"
    ELSE IF new_password_reused(new_password, student)
    THEN "Old passwords cannot be used!"
    ELSE IF ~PASSWORD_PATTERN_match(new_password)
    THEN "Invalid password format!"
    ELSE ""

\* handle_change_confirm of handle_change_password: the Change button, with
\* the texts the user has typed into the three fields by then and ok the
\* return value of Database.update_student.
handle_change_confirm(old_password, new_password, confirm_password, ok) ==
    LET error == change_password_error(old_password, new_password,
                                       confirm_password, current_student)
        student == [current_student EXCEPT !.password = new_password]
    IN  /\ dialog = "change_password"
        /\ change_fields' = [old_password |-> old_password,
                             password |-> new_password,
                             confirm_password |-> confirm_password]
        /\ IF error # ""
           THEN /\ dialog' = "error"
                /\ StudentLog("handle_change_confirm", NoId,
                              <<Msg(error, NoId)>>, <<>>, <<>>)
                /\ UNCHANGED <<database, current_student,
                               app_current_student>>
           ELSE /\ SetStudent(student)
                /\ IF ok
                   THEN /\ database' = update_student(database, student)
                        /\ dialog' = "none"
                        /\ StudentLog("handle_change_confirm", NoId, <<>>,
                                      <<Msg("Password changed successfully!",
                                            NoId)>>,
                                      <<"update_student">>)
                   ELSE /\ database' = database
                        /\ dialog' = "error"
                        /\ StudentLog("handle_change_confirm", NoId,
                                      <<Msg("Failed to update password in database!",
                                            NoId)>>,
                                      <<>>, <<"update_student">>)
        /\ UNCHANGED notStudentVars

\* close_dlg of AppView.display_error, for an error of the student view.
close_student_error ==
    /\ dialog = "error"
    /\ dialog' = "none"
    /\ change_fields' = NoFields
    /\ StudentLog("close_dlg", NoId, <<>>, <<>>, <<>>)
    /\ UNCHANGED <<database, current_student, app_current_student>>
    /\ UNCHANGED notStudentVars

click_change_password ==
    \E old_password \in OldPasswordInputs, new_password \in PasswordInputs,
       ok \in BOOLEAN :
        \E confirm_password \in {new_password, Abcde123} :
            handle_change_confirm(old_password, new_password,
                                  confirm_password, ok)

\* The student who is logged in, and another stored student.
Ann ==
    [id |-> 1, name |-> "Ann", email |-> "ann@university.com",
     password |-> Abcde123, subjects |-> <<>>]

Bob ==
    [id |-> 2, name |-> "Bob", email |-> "bob@university.com",
     password |-> Hello4321, subjects |-> <<Subject(1, 90)>>]

\* StudentView.display(student) after a login: the view, the application and
\* the store hold the same student.
InitStudent ==
    /\ database = <<Ann, Bob>>
    /\ AdminStart
    /\ mark1 = Rat(0, 1)
    /\ mark2 = Rat(0, 1)
    /\ GradeStart
    /\ DialogStart
    /\ is_register_mode = FALSE
    /\ form = LoginForm(FALSE)
    /\ name_field = ""
    /\ email_field = ""
    /\ password_field = <<>>
    /\ confirm_password_field = <<>>
    /\ current_view = "student"
    /\ app_current_student = Ann
    /\ current_student = Ann
    /\ before = Ann
    /\ change_fields = NoFields
    /\ MenuStart
    /\ CollectStart

NextStudent ==
    \/ handle_enroll
    \/ close_enrolment_dialog
    \/ handle_remove_subject
    \/ handle_remove_subject_cancel
    \/ click_remove_subject
    \/ handle_change_password
    \/ handle_change_cancel
    \/ click_change_password
    \/ close_student_error

SpecStudent == InitStudent /\ [][NextStudent]_vars

\* ------------------------------------------------------------ LoginView

\* What the handlers of the login view leave alone.
notLoginVars ==
    <<student_list, renderer, grade_groups, passing, failing, gradeVars,
      dialogVars, before, change_fields, raised, menuVars, collectVars>>

\* The texts a user can type into the fields of the form.
Names == {"", "Ann"}

Emails ==
    {"", "ann@university.com", "bob@university.com", "ann@gmail.com"}

LoginPasswords == {<<>>, Abcde123, <<"A", "b", "c", "d", "1", "2", "3">>}

\* The return value and the messages and database calls of one handler of
\* the login view.
LoginLog(name, result, errs, succs, calls) ==
    /\ op' = Op(name, NoId, FALSE)
    /\ students' = database
    /\ ret' = result
    /\ errors' = errs
    /\ successes' = succs
    /\ dbcalls' = calls

\* The user edits one field of the form; the name and the confirmation are
\* visible in register mode only.
type_name ==
    \E text \in Names :
        /\ current_view = "login" /\ dialog = "none" /\ is_register_mode
        /\ name_field' = text
        /\ LoginLog("name_field", "None", <<>>, <<>>, <<>>)
        /\ UNCHANGED <<email_field, password_field, confirm_password_field,
                       modeVars, current_view, app_current_student,
                       current_student, database, dialog>>
        /\ UNCHANGED notLoginVars

type_email ==
    \E text \in Emails :
        /\ current_view = "login" /\ dialog = "none"
        /\ email_field' = text
        /\ LoginLog("email_field", "None", <<>>, <<>>, <<>>)
        /\ UNCHANGED <<name_field, password_field, confirm_password_field,
                       modeVars, current_view, app_current_student,
                       current_student, database, dialog>>
        /\ UNCHANGED notLoginVars

type_password ==
    \E text \in LoginPasswords :
        /\ current_view = "login" /\ dialog = "none"
        /\ password_field' = text
        /\ LoginLog("password_field", "None", <<>>, <<>>, <<>>)
        /\ UNCHANGED <<name_field, email_field, confirm_password_field,
                       modeVars, current_view, app_current_student,
                       current_student, database, dialog>>
        /\ UNCHANGED notLoginVars

type_confirm_password ==
    \E text \in LoginPasswords :
        /\ current_view = "login" /\ dialog = "none" /\ is_register_mode
        /\ confirm_password_field' = text
        /\ LoginLog("confirm_password_field", "None", <<>>, <<>>, <<>>)
        /\ UNCHANGED <<name_field, email_field, password_field,
                       modeVars, current_view, app_current_student,
                       current_student, database, dialog>>
        /\ UNCHANGED notLoginVars

\* What LoginView.switch_mode does to the form.
switch_mode_fields ==
    /\ is_register_mode' = ~is_register_mode
    /\ form' = LoginForm(~is_register_mode)
    /\ name_field' = ""
    /\ email_field' = ""
    /\ password_field' = <<>>
    /\ confirm_password_field' = <<>>

\* LoginView.switch_mode, from the mode button.
switch_mode ==
    /\ current_view = "login" /\ dialog = "none"
    /\ switch_mode_fields
    /\ LoginLog("switch_mode", "None", <<>>, <<>>, <<>>)
    /\ UNCHANGED <<current_view, app_current_student, current_student,
                   database, dialog>>
    /\ UNCHANGED notLoginVars

\* StudentController._validate_email: the addresses of the university.
_validate_email(email) ==
    email \in {"ann@university.com", "bob@university.com"}

\* StudentController._validate_password: PASSWORD_PATTERN matches.
_validate_password(password) == PASSWORD_PATTERN_match(password)

\* Mutant: the confirmation is not compared.
passwords_differ_never(password, confirm_password) == FALSE

\* The test password != confirm_password of _handle_register.
passwords_differ(password, confirm_password) == password # confirm_password

\* Mutant: no email counts as stored.
email_exists_never(db, email) == FALSE

\* Whether the store holds a student with this email: the truth value of
\* Database.get_student_by_email, and the test of Database.add_student.
email_exists(db, email) == get_student_by_email(db, email) # NoStudent

\* Mutant: the form does not look for the email in the store.
already_exists_never(db, email) == FALSE

\* The test "if self.database.get_student_by_email(email)" of
\* _handle_register.
already_exists(db, email) == email_exists(db, email)

\* The error that _handle_register reports for the form, "" when it goes on
\* to add the student.
register_error(name, email, password, confirm_password, db) ==
    IF name = "" \/ email = "" \/ password = <<>> \/ confirm_password = <<>>
    THEN "All fields are required!"
    ELSE IF passwords_differ(password, confirm_password)
    THEN "Passwords do not match!"
    ELSE IF ~_validate_email(email) THEN "Invalid email format!"
    ELSE IF ~_validate_password(password) THEN "Invalid password format!"
    ELSE IF already_exists(db, email) THEN "Student already exists!"
    ELSE ""

\* The database calls _handle_register has made when it reports this error.
register_calls(error) ==
    IF error = "Student already exists!" THEN <<"get_student_by_email">>
    ELSE <<>>

\* Database.add_student: refused when the email is stored already, and
\* when the store reports a failure.
add_student_result(db, student, ok) == ok /\ ~email_exists(db, student.email)

\* Student(name, email, password) with the id it is given.
NewStudent(id, name, email, password) ==
    [id |-> id, name |-> name, email |-> email, password |-> password,
     subjects |-> <<>>]

\* The ids no stored student has.
FreeIds(db) == (1..MaxStudents) \ {db[i].id : i \in 1..Len(db)}

\* LoginView._handle_register, and the switch_mode of handle_submit after a
\* registration that succeeded.
_handle_register ==
    LET error == register_error(name_field, email_field, password_field,
                                confirm_password_field, database)
    IN  IF error # ""
        THEN /\ LoginLog("_handle_register", "False", <<Msg(error, NoId)>>,
                         <<>>, register_calls(error))
             /\ dialog' = "error"
             /\ UNCHANGED <<database, modeVars, fieldVars>>
        ELSE \E id \in FreeIds(database), ok \in BOOLEAN :
                 LET student == NewStudent(id, name_field, email_field,
                                           password_field)
                 IN  IF add_student_result(database, student, ok)
                     THEN /\ database' = Append(database, student)
                          /\ LoginLog("_handle_register", "True", <<>>,
                                      <<Msg("Registration successful! Please login.",
                                            NoId)>>,
                                      <<"get_student_by_email", "add_student">>)
                          /\ switch_mode_fields
                          /\ UNCHANGED dialog
                     ELSE /\ LoginLog("_handle_register", "False",
                                      <<Msg("Registration failed!", NoId)>>,
                                      <<>>,
                                      <<"get_student_by_email", "add_student">>)
                          /\ dialog' = "error"
                          /\ UNCHANGED <<database, modeVars, fieldVars>>

\* Mutant: the lookup returns the first stored student for any email.
login_student_first(db, email) == IF db = <<>> THEN NoStudent ELSE db[1]

\* The student _handle_login looks up: Database.get_student_by_email.
login_student(db, email) == get_student_by_email(db, email)

\* Mutant: any password opens the account.
password_matches_always(student, password) == TRUE

\* The test student.password == password of _handle_login.
password_matches(student, password) == student.password = password

\* Mutant: the message tells an unknown email from a wrong password.
login_error_telling(student) ==
    IF student = NoStudent THEN "No such student!" ELSE "Invalid credentials!"

\* The message of the else branch of _handle_login, whatever
\* get_student_by_email returned.
login_error(student) == "Invalid credentials!"

\* LoginView._handle_login
_handle_login ==
    LET student == login_student(database, email_field)
    IN  /\ UNCHANGED <<database, modeVars, fieldVars>>
        /\ IF email_field = ""
           THEN /\ LoginLog("_handle_login", "False",
                            <<Msg("Please enter your email.", NoId)>>, <<>>,
                            <<>>)
                /\ dialog' = "error"
                /\ UNCHANGED <<current_view, app_current_student,
                               current_student>>
           ELSE IF password_field = <<>>
           THEN /\ LoginLog("_handle_login", "False",
                            <<Msg("Please enter your password.", NoId)>>,
                            <<>>, <<>>)
                /\ dialog' = "error"
                /\ UNCHANGED <<current_view, app_current_student,
                               current_student>>
           ELSE IF student # NoStudent
                   /\ password_matches(student, password_field)
           THEN /\ LoginLog("_handle_login", "True", <<>>,
                            <<Msg("Login successful!", NoId)>>,
                            <<"get_student_by_email">>)
                /\ current_view' = "student"
                /\ app_current_student' = student
                /\ current_student' = student
                /\ UNCHANGED dialog
           ELSE /\ LoginLog("_handle_login", "False",
                            <<Msg(login_error(student), NoId)>>, <<>>,
                            <<"get_student_by_email">>)
                /\ dialog' = "error"
                /\ UNCHANGED <<current_view, app_current_student,
                               current_student>>

\* LoginView.handle_submit
handle_submit ==
    /\ current_view = "login" /\ dialog = "none"
    /\ IF is_register_mode
       THEN /\ _handle_register
            /\ UNCHANGED <<current_view, app_current_student, current_student>>
       ELSE _handle_login
    /\ UNCHANGED notLoginVars

\* A step of the login view or of a navigation that reports nothing.
QuietStep(name) ==
    /\ LoginLog(name, "None", <<>>, <<>>, <<>>)
    /\ UNCHANGED <<database, dialog, modeVars, fieldVars>>
    /\ UNCHANGED notLoginVars

\* handle_logout of StudentView.display: the view forgets its student and
\* AppView.navigate_to_login shows the login view.
handle_logout ==
    /\ current_view = "student" /\ dialog = "none"
    /\ current_student' = NoStudent
    /\ current_view' = "login"
    /\ UNCHANGED app_current_student
    /\ QuietStep("handle_logout")

\* AppView.navigate_to_admin, from the admin button of the login view.
navigate_to_admin ==
    /\ current_view = "login" /\ dialog = "none"
    /\ current_view' = "admin"
    /\ UNCHANGED <<app_current_student, current_student>>
    /\ QuietStep("navigate_to_admin")

\* handle_back of AdminView.display: AppView.navigate_to_login.
handle_back ==
    /\ current_view = "admin" /\ dialog = "none"
    /\ current_view' = "login"
    /\ UNCHANGED <<app_current_student, current_student>>
    /\ QuietStep("handle_back")

\* The removal and the clearing of students in the admin view.
admin_view_step ==
    /\ current_view = "admin"
    /\ \/ handle_remove_student
       \/ click_remove_confirm
       \/ handle_remove_cancel
       \/ handle_clear_database
       \/ handle_clear_confirm
       \/ handle_clear_cancel

InitLogin ==
    /\ database = <<>>
    /\ AdminStart
    /\ mark1 = Rat(0, 1)
    /\ mark2 = Rat(0, 1)
    /\ GradeStart
    /\ DialogStart
    /\ LoginStart
    /\ StudentStart
    /\ MenuStart
    /\ CollectStart

NextLogin ==
    \/ type_name
    \/ type_email
    \/ type_password
    \/ type_confirm_password
    \/ switch_mode
    \/ handle_submit
    \/ navigate_to_admin
    \/ handle_back
    \/ admin_view_step
    \/ close_dlg

SpecLogin == InitLogin /\ [][NextLogin]_vars

\* ------------------------------------------ AdminController.handle_choice

\* str.upper on one character, for the characters the menu is given.
upper(c) ==
    CASE c = "c" -> "C"
      [] c = "g" -> "G"
      [] c = "p" -> "P"
      [] c = "r" -> "R"
      [] c = "s" -> "S"
      [] c = "x" -> "X"
      [] c = "q" -> "Q"
      [] OTHER -> c

\* choice.upper()
Uppercase(text) == [i \in 1..Len(text) |-> upper(text[i])]

\* The texts a caller gives to handle_choice: the six letters in both
\* cases, and texts that are no option.
Choices ==
    {<<"c">>, <<"C">>, <<"g">>, <<"G">>, <<"p">>, <<"P">>, <<"r">>, <<"R">>,
     <<"s">>, <<"S">>, <<"x">>, <<"X">>, <<"q">>, <<"Q">>, <<"1">>, <<" ">>,
     <<>>, <<"c", "c">>, <<"x", " ">>}

\* AdminMenuOption(value): the member with that value; when there is none
\* _missing_ returns None and the Enum raises ValueError.
AdminMenuOption(value) ==
    CASE value = <<"C">> -> "CLEAR"
      [] value = <<"G">> -> "GROUP"
      [] value = <<"P">> -> "PARTITION"
      [] value = <<"R">> -> "REMOVE"
      [] value = <<"S">> -> "SHOW"
      [] value = <<"X">> -> "EXIT"
      [] OTHER -> "ValueError"

\* Mutant: handle_choice has no except clause.
handle_choice_catches_nothing(exception) == FALSE

\* "except ValueError" of handle_choice
handle_choice_catches(exception) == exception = "ValueError"

\* The branch SHOW of handle_choice: load_all_students, then
\* display_all_students.
handle_choice_show ==
    LET list == load_all_students(database)
        shown == display_all_students(list, dialog)
    IN  /\ students' = list
        /\ dbcalls' = <<"load_all_students">>
        /\ student_list' = shown.rows
        /\ errors' = shown.errors
        /\ dialog' = shown.dialog
        /\ renderer' = "display_all_students"
        /\ successes' = <<>>
        /\ grade_groups' = EmptyGroups
        /\ passing' = <<>>
        /\ failing' = <<>>
        /\ ret' = "None"
        /\ raised' = shown.raised
        /\ UNCHANGED database

\* AdminController.handle_choice(text). remove_student is called without an
\* id and asks the view for one; clear_database asks the view to confirm.
handle_choice(text) ==
    LET option == AdminMenuOption(Uppercase(text))
    IN  /\ dialog = "none"
        /\ choice' = text
        /\ CASE option = "CLEAR" ->
                    /\ \E answer \in BOOLEAN : clear_database(answer)
                    /\ choice_ret' = "True"
             [] option = "GROUP" ->
                    /\ op' = Op("handle_choice", NoId, FALSE)
                    /\ group_students
                    /\ choice_ret' = "True"
             [] option = "PARTITION" ->
                    /\ op' = Op("handle_choice", NoId, FALSE)
                    /\ partition_students
                    /\ choice_ret' = "True"
             [] option = "REMOVE" ->
                    /\ \E typed \in IdInputs : remove_student(NoId, typed)
                    /\ choice_ret' = "True"
             [] option = "SHOW" ->
                    /\ op' = Op("handle_choice", NoId, FALSE)
                    /\ handle_choice_show
                    /\ choice_ret' =
                           IF display_all_students(load_all_students(database),
                                                   dialog).raised = "none"
                           THEN "True" ELSE "None"
             [] option = "EXIT" ->
                    /\ op' = Op("handle_choice", NoId, FALSE)
                    /\ Quiet
                    /\ choice_ret' = "False"
                    /\ UNCHANGED <<database, dialog, student_list>>
             [] option = "ValueError" ->
                    /\ op' = Op("handle_choice", NoId, FALSE)
                    /\ students' = database
                    /\ dbcalls' = <<>>
                    /\ successes' = <<>>
                    /\ renderer' = "none"
                    /\ grade_groups' = EmptyGroups
                    /\ passing' = <<>>
                    /\ failing' = <<>>
                    /\ ret' = "None"
                    /\ IF handle_choice_catches("ValueError")
                       THEN /\ errors' = <<Msg("Invalid option", NoId)>>
                            /\ dialog' = "error"
                            /\ raised' = "none"
                            /\ choice_ret' = "True"
                       ELSE /\ errors' = <<>>
                            /\ dialog' = dialog
                            /\ raised' = "ValueError"
                            /\ choice_ret' = "None"
                    /\ UNCHANGED <<database, student_list>>
        /\ UNCHANGED <<gradeVars, dialogVars, loginVars, studentVars,
                       collectVars>>

\* A call of handle_choice with any text.
call_handle_choice == \E text \in Choices : handle_choice(text)

NextMenu ==
    \/ call_handle_choice
    \/ close_dlg
    \/ close_dialog

\* The stores the menu is run on: the empty one, one of students without
\* subjects, and two with students of several grades.
MenuStores ==
    {<<>>,
     <<Student(1, <<>>), Student(2, <<>>)>>,
     <<Student(1, <<90>>), Student(2, <<40>>)>>,
     <<Student(1, <<>>), Student(2, <<60, 40>>), Student(3, <<90>>)>>}

InitMenu ==
    /\ database \in MenuStores
    /\ AdminStart
    /\ mark1 = Rat(0, 1)
    /\ mark2 = Rat(0, 1)
    /\ GradeStart
    /\ DialogStart
    /\ LoginStart
    /\ StudentStart
    /\ MenuStart
    /\ CollectStart

SpecMenu == InitMenu /\ [][NextMenu]_vars

\* ------------------------------------------------------------ a session

\* The views of one run of the application: the login view with its two
\* modes, the student view a login opens and logout leaves, and the admin
\* view and back.
NextSession ==
    \/ type_name
    \/ type_email
    \/ type_password
    \/ type_confirm_password
    \/ switch_mode
    \/ handle_submit
    \/ handle_logout
    \/ navigate_to_admin
    \/ handle_back
    \/ close_dlg

SpecSession == InitLogin /\ [][NextSession]_vars

\* ------------------------------------------------ file-content-collector

\* The code point of a character, for the order of str.sort.
Code(c) ==
    CASE c = "-" -> 45
      [] c = "." -> 46
      [] c = "/" -> 47
      [] c = "a" -> 97
      [] c = "d" -> 100
      [] c = "e" -> 101
      [] c = "o" -> 111

\* s < t for two strings, as list.sort compares them.
RECURSIVE StrLess(_, _)
StrLess(s, t) ==
    IF t = <<>> THEN FALSE
    ELSE IF s = <<>> THEN TRUE
    ELSE IF Head(s) # Head(t) THEN Code(Head(s)) < Code(Head(t))
    ELSE StrLess(Tail(s), Tail(t))

\* all_files.sort() on a list of distinct paths.
RECURSIVE sort_paths(_)
sort_paths(paths) ==
    IF paths = {} THEN <<>>
    ELSE LET first == CHOOSE p \in paths :
                          \A q \in paths \ {p} : StrLess(p, q)
         IN  <<first>> \o sort_paths(paths \ {first})

\* The place of the last "/" of a path, 0 when it has none.
LastSlash(path) ==
    IF \E i \in 1..Len(path) : path[i] = "/"
    THEN CHOOSE i \in 1..Len(path) :
             path[i] = "/" /\ \A j \in (i + 1)..Len(path) : path[j] # "/"
    ELSE 0

\* The name of the file of a path below the current directory, which
\* os.walk yields in files.
FileName(path) == SubSeq(path, LastSlash(path) + 1, Len(path))

\* The directory of a path as os.walk('.') yields it in root.
WalkRoot(path) ==
    IF LastSlash(path) = 0 THEN <<".">>
    ELSE <<".", "/">> \o SubSeq(path, 1, LastSlash(path) - 1)

\* os.path.join(root, file)
join(root, file) == root \o <<"/">> \o file

\* os.path.relpath(path) from the current directory, for a path below it.
relpath(path) ==
    IF Len(path) >= 2 /\ path[1] = "." /\ path[2] = "/"
    THEN SubSeq(path, 3, Len(path))
    ELSE path

\* The test of the walk (line 65): the name of the file is not output_file.
walk_keeps(file, output) == file # output

\* all_files before it is sorted: the joined paths of the files the walk
\* keeps.
all_files(files, output) ==
    {join(WalkRoot(p), FileName(p)) :
         p \in {q \in files : walk_keeps(FileName(q), output)}}

\* The records write_file_content writes for the sorted list: the relative
\* path of every file but one whose relative path is output_file.
RECURSIVE written_records(_, _)
written_records(list, output) ==
    IF list = <<>> THEN <<>>
    ELSE IF relpath(Head(list)) = output
    THEN written_records(Tail(list), output)
    ELSE <<relpath(Head(list))>> \o written_records(Tail(list), output)

\* The files a directory tree may hold before a run.
TreeFiles ==
    {<<"a">>, <<"o">>, <<"d", "-", "a">>, <<"d", "/", "a">>,
     <<"d", "/", "o">>, <<"d", "/", "e", "/", "o">>}

\* The values of the argument output_file.
OutputFiles == {<<"o">>, <<"d", "/", "o">>, <<".", "/", "o">>}

\* open(output_file, 'w') finds the directory of the output file.
output_dir_exists(files, output) ==
    \/ LastSlash(relpath(output)) = 0
    \/ \E p \in files :
           /\ LastSlash(p) >= LastSlash(relpath(output))
           /\ SubSeq(p, 1, LastSlash(relpath(output)))
                  = SubSeq(relpath(output), 1, LastSlash(relpath(output)))

\* collect_files_content(output): the walk, the sort, and the records; the
\* output file is created or truncated, unless its directory is missing and
\* open raises.
collect_files_content(output) ==
    /\ output_file' = output
    /\ op' = Op("collect_files_content", NoId, FALSE)
    /\ IF output_dir_exists(tree, output)
       THEN /\ out_file' = written_records(sort_paths(all_files(tree, output)),
                                           output)
            /\ tree' = tree \cup {relpath(output)}
            /\ raised' = "none"
       ELSE /\ out_file' = <<>>
            /\ tree' = tree
            /\ raised' = "FileNotFoundError"
    /\ UNCHANGED <<database, dialog, student_list, errors, successes,
                   renderer, grade_groups, passing, failing, ret, students,
                   dbcalls>>
    /\ UNCHANGED <<gradeVars, dialogVars, loginVars, studentVars, menuVars>>

\* A run of the script with any output file.
run_collect == \E output \in OutputFiles : collect_files_content(output)

InitCollect ==
    /\ database = <<>>
    /\ AdminStart
    /\ mark1 = Rat(0, 1)
    /\ mark2 = Rat(0, 1)
    /\ GradeStart
    /\ DialogStart
    /\ LoginStart
    /\ StudentStart
    /\ MenuStart
    /\ tree \in SUBSET TreeFiles
    /\ output_file = <<>>
    /\ out_file = <<>>

NextCollect == run_collect

SpecCollect == InitCollect /\ [][NextCollect]_vars

\* --------------------------------------------------------------- claims

Range(list) == {list[i] : i \in 1..Len(list)}

\* The place of a student in a list that holds it once.
PlaceIn(list, student) == CHOOSE i \in 1..Len(list) : list[i] = student

GradeRank(grade) ==
    CASE grade = "Z" -> 0
      [] grade = "P" -> 1
      [] grade = "C" -> 2
      [] grade = "D" -> 3
      [] grade = "HD" -> 4

\* list is in non-increasing order of average mark
NonIncreasing(list) ==
    \A i, j \in 1..Len(list) :
        i < j => get_average_mark(list[i]).num * get_average_mark(list[j]).den
                 >= get_average_mark(list[j]).num * get_average_mark(list[i]).den

\* students of list with equal average marks are in the order of source
KeepsOrderOfEquals(list, source) ==
    \A i, j \in 1..Len(list) :
        (i < j /\ RatEq(get_average_mark(list[i]), get_average_mark(list[j])))
            => PlaceIn(source, list[i]) < PlaceIn(source, list[j])

Grouped == op.name = "handle_group_students" /\ students # <<>>

Partitioned == op.name = "handle_partition_students" /\ students # <<>>

\* C1: every mark gets exactly one of HD, D, C, P, Z by the thresholds:
\* HD from 85, D from 75 and below 85, C from 65 and below 75, P from 50 and
\* below 65, Z below 50; each boundary belongs to the higher grade.
C1_GradeThresholds ==
    grade1 # "none" =>
        /\ grade1 \in Grades
        /\ (grade1 = "HD") = (mark1.num >= 85 * mark1.den)
        /\ (grade1 = "D") =
               (mark1.num >= 75 * mark1.den /\ mark1.num < 85 * mark1.den)
        /\ (grade1 = "C") =
               (mark1.num >= 65 * mark1.den /\ mark1.num < 75 * mark1.den)
        /\ (grade1 = "P") =
               (mark1.num >= 50 * mark1.den /\ mark1.num < 65 * mark1.den)
        /\ (grade1 = "Z") = (mark1.num < 50 * mark1.den)

\* The boundary mark 85 has been graded HD and the mark 84.5 D.
C1_Witness ==
    /\ mark1 = Rat(85, 1) /\ grade1 = "HD"
    /\ mark2 = Rat(169, 2) /\ grade2 = "D"

\* C2: the grade function is monotone: when mark1 <= mark2, the grade of
\* mark1 is not above the grade of mark2 in the order Z < P < C < D < HD.
C2_GradeMonotone ==
    (grade1 # "none" /\ RatLeq(mark1, mark2))
        => GradeRank(grade1) <= GradeRank(grade2)

\* Two marks in different grades have been graded, the lower one first.
C2_Witness ==
    /\ grade1 = "C"
    /\ grade2 = "D"
    /\ RatLess(mark1, mark2)

\* C3: on the empty store group_students and partition_students display the
\* error "No students found" and call no renderer, so that no grouping and
\* no partition is produced.
C3_EmptyStoreReportsError ==
    (op.name \in {"handle_group_students", "handle_partition_students"}
     /\ students = <<>>)
        => /\ errors = <<Msg("No students found", NoId)>>
           /\ renderer = "none"
           /\ DOMAIN grade_groups = {}
           /\ passing = <<>>
           /\ failing = <<>>

\* Grouping has been asked for on the empty store and has displayed an error.
C3_Witness ==
    /\ op.name = "handle_group_students"
    /\ students = <<>>
    /\ database = <<>>
    /\ errors # <<>>

\* C4: for a store with students, in the mapping given to
\* display_grade_groups each student is in the bucket of the grade of its own
\* average mark, each bucket is in non-increasing order of average mark, and
\* the buckets hold every student of the store exactly once, with no bucket
\* empty.
C4_GroupsAreExactAndSorted ==
    Grouped =>
        /\ renderer = "display_grade_groups"
        /\ DOMAIN grade_groups \subseteq Grades
        /\ \A g \in DOMAIN grade_groups :
               /\ grade_groups[g] # <<>>
               /\ NonIncreasing(grade_groups[g])
               /\ \A i \in 1..Len(grade_groups[g]) :
                      /\ grade_groups[g][i] \in Range(students)
                      /\ _get_grade_from_mark(
                             get_average_mark(grade_groups[g][i])) = g
        /\ \A k \in 1..Len(students) :
               Cardinality({p \in (DOMAIN grade_groups) \X (1..Len(students)) :
                               /\ p[2] <= Len(grade_groups[p[1]])
                               /\ grade_groups[p[1]][p[2]] = students[k]}) = 1

\* Three students have been grouped into two buckets, and the bucket of two
\* holds them in another order than the store.
C4_Witness ==
    /\ Grouped
    /\ Len(students) = 3
    /\ Cardinality(DOMAIN grade_groups) = 2
    /\ \E g \in DOMAIN grade_groups :
           /\ Len(grade_groups[g]) = 2
           /\ PlaceIn(students, grade_groups[g][1])
                  > PlaceIn(students, grade_groups[g][2])

\* C5: two students of one bucket with equal average marks are in the bucket
\* in the order in which load_all_students returned them.
C5_GroupSortIsStable ==
    Grouped =>
        \A g \in DOMAIN grade_groups :
            KeepsOrderOfEquals(grade_groups[g], students)

\* A bucket holds two students with the same average mark and, before them,
\* a student that the store holds after them.
C5_Witness ==
    /\ Grouped
    /\ \E g \in DOMAIN grade_groups :
           /\ Len(grade_groups[g]) = 3
           /\ RatEq(get_average_mark(grade_groups[g][2]),
                    get_average_mark(grade_groups[g][3]))
           /\ PlaceIn(students, grade_groups[g][1]) = 3

\* C6: for a store with students, every student of the passing list has an
\* average mark of at least 50, every student of the failing list one below
\* 50, no student is in both lists, and the two lists together hold every
\* student of the store exactly once.
C6_PartitionIsExact ==
    Partitioned =>
        /\ renderer = "display_partitioned_students"
        /\ \A i \in 1..Len(passing) :
               get_average_mark(passing[i]).num
                   >= 50 * get_average_mark(passing[i]).den
        /\ \A i \in 1..Len(failing) :
               get_average_mark(failing[i]).num
                   < 50 * get_average_mark(failing[i]).den
        /\ Range(passing) \cap Range(failing) = {}
        /\ Range(passing) \cup Range(failing) = Range(students)
        /\ Len(passing) + Len(failing) = Len(students)

\* A store has been split into a passing list that holds a student with the
\* average mark 50 and a failing list that is not empty.
C6_Witness ==
    /\ Partitioned
    /\ failing # <<>>
    /\ \E i \in 1..Len(passing) :
           RatEq(get_average_mark(passing[i]), Rat(50, 1))

\* C7: both lists of partition_students are in non-increasing order of
\* average mark, and students with equal average marks are in the order in
\* which load_all_students returned them.
C7_PartitionSortedAndStable ==
    Partitioned =>
        /\ NonIncreasing(passing)
        /\ NonIncreasing(failing)
        /\ KeepsOrderOfEquals(passing, students)
        /\ KeepsOrderOfEquals(failing, students)

\* The passing list holds three students, the last two with equal average
\* marks, and its first student is the last of the store.
C7_Witness ==
    /\ Partitioned
    /\ Len(passing) = 3
    /\ RatEq(get_average_mark(passing[2]), get_average_mark(passing[3]))
    /\ PlaceIn(students, passing[1]) = 3

\* C8: a student without subjects has the average mark 0; group_students puts
\* it into bucket Z and partition_students into the failing list.
C8_NoSubjectsIsZAndFailing ==
    \A k \in 1..Len(students) :
        students[k].subjects = <<>> =>
            /\ get_average_mark(students[k]).num = 0
            /\ Grouped =>
                   /\ "Z" \in DOMAIN grade_groups
                   /\ students[k] \in Range(grade_groups["Z"])
            /\ Partitioned =>
                   /\ students[k] \in Range(failing)
                   /\ students[k] \notin Range(passing)

\* A store with a student without subjects and a passing student has been
\* grouped.
C8_Witness ==
    /\ Grouped
    /\ \E k \in 1..Len(students) : students[k].subjects = <<>>
    /\ Cardinality(DOMAIN grade_groups) = 2

\* C9: remove_student(id) returns True and reports success when a student
\* with that id is stored, and that student and no other is then gone; when
\* no student has that id it returns False, reports "not found" through
\* display_error, and the store is unchanged.
C9_RemoveStudent ==
    op.name = "remove_student" =>
        IF \E k \in 1..Len(students) : students[k].id = op.student_id
        THEN /\ ret = "True"
             /\ successes = <<Msg("removed successfully!", op.student_id)>>
             /\ errors = <<>>
             /\ \A k \in 1..Len(database) : database[k].id # op.student_id
             /\ Range(database)
                    = {s \in Range(students) : s.id # op.student_id}
             /\ Len(database) = Len(students) - 1
        ELSE /\ ret = "False"
             /\ errors = <<Msg("not found!", op.student_id)>>
             /\ successes = <<>>
             /\ database = students

\* The second of three students has been removed.
C9_Witness ==
    /\ op.name = "remove_student"
    /\ ret = "True"
    /\ Len(students) = 3
    /\ students[2].id = op.student_id
    /\ Len(database) = 2

\* A clear of the store that the user has confirmed.
ClearConfirmed ==
    \/ (op.name = "clear_database" /\ op.answer)
    \/ op.name = "handle_clear_confirm"

\* A clear of the store that the user has declined.
ClearDeclined ==
    \/ (op.name = "clear_database" /\ ~op.answer)
    \/ op.name = "handle_clear_cancel"

\* C10 as stated: clear_all is called only after the user has confirmed, and
\* when the user declines no student is removed and the outcome is reported
\* as a cancellation, not as an error.
C10_DeclineReportsCancellation ==
    /\ ("clear_all" \in Range(dbcalls) => ClearConfirmed)
    /\ ClearDeclined =>
           /\ database = students
           /\ errors = <<>>
           /\ successes = <<Msg("Operation cancelled", NoId)>>

\* C10 amended: clear_all is called only after the user has confirmed; when
\* the user declines no student is removed and no error is displayed;
\* clear_database then reports "Operation cancelled" through display_success,
\* and the Cancel button of the admin view closes the dialog and reports
\* nothing.
C10_ClearOnlyWhenConfirmed ==
    /\ ("clear_all" \in Range(dbcalls) => ClearConfirmed)
    /\ ClearDeclined =>
           /\ database = students
           /\ "clear_all" \notin Range(dbcalls)
           /\ errors = <<>>
           /\ op.name = "clear_database"
                  => successes = <<Msg("Operation cancelled", NoId)>>
           /\ op.name = "handle_clear_cancel"
                  => (successes = <<>> /\ dialog = "none")

\* The user has declined the clear of a store with students, on the
\* controller's path.
C10_Witness ==
    /\ op.name = "clear_database"
    /\ ~op.answer
    /\ Len(database) = MaxStudents
    /\ ret = "False"

\* C11: confirm_action returns True exactly when the user answers Yes and
\* False when the user answers No, get_input returns the entered text on OK
\* and the empty text on Cancel, and neither call returns before the user
\* has responded to its dialog.
C11_DialogCallsWaitForAnswer ==
    /\ confirm_ret # "None" =>
           /\ response \in {"Yes", "No"}
           /\ (confirm_ret = "True") = (response = "Yes")
    /\ input_ret # NoneText =>
           /\ response \in {"OK", "Cancel"}
           /\ input_ret = (IF response = "OK" THEN text_field ELSE NoId)

\* The stored copy of the student who is logged in.
Stored(db) == get_student_by_email(db, current_student.email)

\* C12: an enrolment requested while the student holds MAX_SUBJECTS subjects
\* is rejected with an error, creates no subject and leaves the in-memory
\* list and the stored student unchanged; the number of subjects never
\* exceeds MAX_SUBJECTS, in memory or in the store, whatever enrolments and
\* removals came before.
C12_EnrolmentIsCapped ==
    /\ Len(current_student.subjects) <= MAX_SUBJECTS
    /\ \A i \in 1..Len(database) : Len(database[i].subjects) <= MAX_SUBJECTS
    /\ (op.name = "handle_enroll" /\ Len(before.subjects) = MAX_SUBJECTS) =>
           /\ errors = <<Msg("Maximum subjects already enrolled!", NoId)>>
           /\ successes = <<>>
           /\ dbcalls = <<>>
           /\ current_student = before
           /\ database = students

C12_Witness ==
    /\ op.name = "handle_enroll"
    /\ Len(before.subjects) = MAX_SUBJECTS
    /\ errors # <<>>
    /\ Len(Stored(database).subjects) < MAX_SUBJECTS

\* C13: a removal with a subject id that the student does not hold reports
\* "not found" and changes neither the in-memory list nor the stored
\* student; with an id the student holds, the subject leaves the in-memory
\* list and update_student is called with the updated student, which is
\* what the store holds when the call succeeds.
C13_SubjectRemoval ==
    (op.name = "handle_remove_confirm" /\ op.student_id # NoId) =>
        IF has_subject(before, op.student_id)
        THEN /\ ~has_subject(current_student, op.student_id)
             /\ current_student.subjects =
                    SelectSeq(before.subjects,
                              LAMBDA subject : subject.id # op.student_id)
             /\ Len(current_student.subjects) = Len(before.subjects) - 1
             /\ dbcalls = <<"update_student">>
             /\ \/ /\ successes =
                          <<Msg("Subject removed successfully!", op.student_id)>>
                   /\ errors = <<>>
                   /\ Stored(database) = current_student
                \/ /\ successes = <<>>
                   /\ errors = <<Msg("Failed to update database!", NoId)>>
                   /\ database = students
        ELSE /\ errors = <<Msg("Subject not found!", op.student_id)>>
             /\ successes = <<>>
             /\ dbcalls = <<>>
             /\ current_student = before
             /\ database = students

C13_Witness ==
    /\ op.name = "handle_remove_confirm"
    /\ has_subject(before, op.student_id)
    /\ Len(before.subjects) = MAX_SUBJECTS
    /\ successes # <<>>
    /\ Stored(students) # Stored(database)

\* C19: a password change whose old password differs from the student's
\* current password fails with an error, and neither the in-memory nor the
\* stored password changes.
C19_WrongOldPasswordChangesNothing ==
    (/\ op.name = "handle_change_confirm"
     /\ change_fields.old_password # before.password) =>
        /\ errors # <<>>
        /\ successes = <<>>
        /\ dbcalls = <<>>
        /\ current_student = before
        /\ database = students

C19_Witness ==
    /\ op.name = "handle_change_confirm"
    /\ errors = <<Msg("Old passwords error!", NoId)>>
    /\ change_fields.password \in ValidPasswords
    /\ change_fields.password = change_fields.confirm_password

\* The last handler changed a password or called update_student.
PasswordChangeApplied ==
    /\ op.name = "handle_change_confirm"
    /\ \/ current_student.password # before.password
       \/ database # students
       \/ dbcalls # <<>>

\* The four conditions of a password change.
PasswordChangeAllowed ==
    /\ change_fields.old_password = before.password
    /\ change_fields.password # before.password
    /\ change_fields.password = change_fields.confirm_password
    /\ change_fields.password \in ValidPasswords

\* C20: a password change is applied only when the old password matches the
\* current one, the new password differs from the current one, equals its
\* confirmation and matches PASSWORD_PATTERN; then the student's password
\* is the new one and update_student is called with the updated student.
C20_PasswordChangeOnlyWhenAllowed ==
    /\ PasswordChangeApplied => PasswordChangeAllowed
    /\ (op.name = "handle_change_confirm" /\ PasswordChangeAllowed) =>
           /\ current_student =
                  [before EXCEPT !.password = change_fields.password]
           /\ dbcalls = <<"update_student">>
           /\ \/ Stored(database) = current_student /\ errors = <<>>
              \/ database = students /\ successes = <<>>
    /\ current_student.password \in ValidPasswords

C20_Witness ==
    /\ PasswordChangeApplied
    /\ successes = <<Msg("Password changed successfully!", NoId)>>
    /\ Stored(database).password = change_fields.password
    /\ Stored(students).password # change_fields.password

\* The store holds a student with the email of the form.
EmailIsStored(db) == \E i \in 1..Len(db) : db[i].email = email_field

\* The form passes every check that comes before the look-up of the email.
FormIsValid ==
    /\ name_field # "" /\ email_field # ""
    /\ password_field # <<>> /\ confirm_password_field # <<>>
    /\ password_field = confirm_password_field
    /\ email_field \in {"ann@university.com", "bob@university.com"}
    /\ password_field \in ValidPasswords

\* C14: a registration with an email that a stored student already has
\* fails, add_student is not called and the store is left as it was; when
\* the form passes the checks before the look-up, the error is "Student
\* already exists!".
C14_DuplicateEmailRejected ==
    [][(op'.name = "_handle_register" /\ EmailIsStored(database)) =>
           /\ ret' = "False"
           /\ database' = database
           /\ \A i \in 1..Len(dbcalls') : dbcalls'[i] # "add_student"
           /\ errors' # <<>>
           /\ successes' = <<>>
           /\ is_register_mode' = is_register_mode
           /\ FormIsValid =>
                  errors' = <<Msg("Student already exists!", NoId)>>]_vars

C14_Witness ==
    /\ op.name = "_handle_register"
    /\ errors = <<Msg("Student already exists!", NoId)>>
    /\ EmailIsStored(database)
    /\ Len(database) = 2

\* C15: whatever registrations, removals and clears the views have made, no
\* two stored students have the same email.
C15_OneStudentPerEmail ==
    \A i, j \in 1..Len(database) :
        i # j => database[i].email # database[j].email

C15_Witness ==
    /\ op.name = "_handle_register"
    /\ ret = "True"
    /\ Len(database) = 2
    /\ database[1].id > database[2].id

\* C16: a registration whose form fails a check (a field is empty, the
\* confirmation differs, the email or the password format is rejected)
\* returns False, reports an error and leaves the store as it was; a
\* student is added only when every check passes and the email is not
\* stored yet, and it is the student of the form.
C16_RegistrationValidates ==
    [][op'.name = "_handle_register" =>
           /\ ~FormIsValid =>
                  /\ ret' = "False"
                  /\ errors' # <<>>
                  /\ successes' = <<>>
                  /\ database' = database
           /\ database' # database =>
                  /\ FormIsValid
                  /\ ~EmailIsStored(database)
                  /\ ret' = "True"
                  /\ \E id \in 1..MaxStudents :
                         database' =
                             Append(database,
                                    NewStudent(id, name_field, email_field,
                                               password_field))
           /\ (ret' = "True") = (database' # database)]_vars

C16_Witness ==
    /\ op.name = "_handle_register"
    /\ ret = "False"
    /\ errors = <<Msg("Passwords do not match!", NoId)>>
    /\ password_field \in ValidPasswords
    /\ email_field = "bob@university.com"
    /\ Len(database) = 1

\* The store holds a student with the email and the password of the form.
CredentialsAreStored(db) ==
    \E i \in 1..Len(db) :
        db[i].email = email_field /\ db[i].password = password_field

\* C17: a login succeeds, that is returns True and shows the student view
\* of the student, only when email and password are not empty, a student
\* with that email is stored and the password equals the stored one;
\* otherwise it returns False and the login view stays.
C17_LoginNeedsCredentials ==
    op.name = "_handle_login" =>
        /\ (ret = "True") =
               (/\ email_field # ""
                /\ password_field # <<>>
                /\ CredentialsAreStored(students))
        /\ ret \in {"True", "False"}
        /\ database = students
        /\ IF ret = "True"
           THEN /\ current_view = "student"
                /\ app_current_student =
                       get_student_by_email(database, email_field)
                /\ current_student = app_current_student
                /\ errors = <<>>
           ELSE /\ current_view = "login"
                /\ app_current_student = NoStudent
                /\ current_student = NoStudent
                /\ errors # <<>>

C17_Witness ==
    /\ op.name = "_handle_login"
    /\ ret = "True"
    /\ current_view = "student"
    /\ Len(database) = 2

\* C18: a login that fails with both fields filled has one outcome, whether
\* the email is unknown or the password is wrong: the error "Invalid
\* credentials!", the return value False, the login view, and no change of
\* the store or of the current student.
C18_FailedLoginTellsNothing ==
    (/\ op.name = "_handle_login"
     /\ ret = "False"
     /\ email_field # ""
     /\ password_field # <<>>) =>
        /\ errors = <<Msg("Invalid credentials!", NoId)>>
        /\ successes = <<>>
        /\ dbcalls = <<"get_student_by_email">>
        /\ dialog = "error"
        /\ current_view = "login"
        /\ database = students
        /\ app_current_student = NoStudent
        /\ current_student = NoStudent

C18_Witness ==
    /\ op.name = "_handle_login"
    /\ ret = "False"
    /\ EmailIsStored(database)
    /\ ~CredentialsAreStored(database)
    /\ password_field # <<>>
    /\ errors = <<Msg("Invalid credentials!", NoId)>>

\* The twelve texts that name an option of the admin menu.
IsMenuOption(text) ==
    text \in {<<"c">>, <<"C">>, <<"g">>, <<"G">>, <<"p">>, <<"P">>,
              <<"r">>, <<"R">>, <<"s">>, <<"S">>, <<"x">>, <<"X">>}

\* C21: handle_choice with a text that is none of C, G, P, R, S, X in either
\* case displays the error "Invalid option", calls no database operation,
\* raises nothing and returns True; and handle_choice returns False only
\* for the exit option X.
C21_InvalidOptionIsReported ==
    /\ (op.name = "handle_choice" /\ ~IsMenuOption(choice)) =>
           /\ errors = <<Msg("Invalid option", NoId)>>
           /\ dbcalls = <<>>
           /\ database = students
           /\ raised = "none"
           /\ choice_ret = "True"
    /\ (choice_ret = "False" => choice \in {<<"x">>, <<"X">>})

C21_Witness ==
    /\ op.name = "handle_choice"
    /\ choice = <<"c", "c">>
    /\ choice_ret = "True"
    /\ errors = <<Msg("Invalid option", NoId)>>
    /\ database # <<>>

C23_MarkColorIsGradeColor ==
    grade1 # "none" => mark_color = grade_color

C23_Witness ==
    /\ grade1 = "P"
    /\ mark1 = Rat(129, 2)
    /\ mark_color = "ORANGE_700"
    /\ grade_color = "ORANGE_700"

\* C24: display_all_students with a list that is not empty leaves one row
\* for each student in the table, in the order of the list, whether or not
\* the students have subjects, and displays no error; with the empty list
\* it leaves the table empty and displays "No students found".
C24_TableHoldsEveryStudent ==
    op.name = "handle_show_students" =>
        IF students = <<>>
        THEN /\ student_list = <<>>
             /\ errors = <<Msg("No students found", NoId)>>
        ELSE /\ student_list = [i \in 1..Len(students) |-> students[i].id]
             /\ errors = <<>>

\* The students of a bucket of a grouping, none when the grade has no bucket.
Bucket(groups, grade) ==
    IF grade \in DOMAIN groups THEN Range(groups[grade]) ELSE {}

PassingBuckets(groups) ==
    Bucket(groups, "HD") \cup Bucket(groups, "D") \cup Bucket(groups, "C")
        \cup Bucket(groups, "P")

\* C28: on one store, the passing list of partition_students holds exactly
\* the students that group_students puts into the buckets HD, D, C and P,
\* and the failing list exactly those of bucket Z.
C28_PartitionAgreesWithGroups ==
    /\ Partitioned =>
           /\ Range(passing) = PassingBuckets(build_grade_groups(students))
           /\ Range(failing) = Bucket(build_grade_groups(students), "Z")
    /\ Grouped =>
           /\ PassingBuckets(grade_groups) = Range(passing_list(students))
           /\ Bucket(grade_groups, "Z") = Range(failing_list(students))

\* A store with a student of the average mark 50, one above and one below
\* has been partitioned.
C28_Witness ==
    /\ Partitioned
    /\ failing # <<>>
    /\ Len(passing) = 2
    /\ \E i \in 1..Len(passing) :
           _get_grade_from_mark(get_average_mark(passing[i])) = "P"
    /\ Cardinality(DOMAIN build_grade_groups(students)) = 3

\* C29: when a password change or a subject removal of the student view ends
\* with an error message, the failure of update_student included, the
\* student in memory has the password and the subjects it had before the
\* request, and is equal to the stored student.
C29_ErrorLeavesStudentAsStored ==
    (op.name \in {"handle_change_confirm", "handle_remove_confirm"}
         /\ errors # <<>>) =>
        /\ current_student.password = before.password
        /\ current_student.subjects = before.subjects
        /\ current_student = Stored(database)

\* The four input fields of the login view are empty.
FieldsAreEmpty ==
    /\ name_field = ""
    /\ email_field = ""
    /\ password_field = <<>>
    /\ confirm_password_field = <<>>

\* The name and the confirmation are visible in register mode only, and the
\* title and the two buttons name the mode.
FormShowsMode ==
    /\ form.name_visible = is_register_mode
    /\ form.confirm_visible = is_register_mode
    /\ form.mode_text = (IF is_register_mode THEN "Register" ELSE "Login")
    /\ form.submit_button = (IF is_register_mode THEN "Register" ELSE "Login")
    /\ form.mode_button = (IF is_register_mode THEN "Switch to Login"
                           ELSE "Switch to Register")

\* C26: in the login view the name and the confirmation field are visible
\* exactly in register mode and the title and the buttons name the current
\* mode; every switch of mode changes the mode and empties the four fields;
\* a successful registration leaves the view in login mode with empty
\* fields; a failed registration and any login attempt leave the mode as it
\* was.
C26_FormFollowsMode ==
    [][/\ FormShowsMode
       /\ FormShowsMode'
       /\ op'.name = "switch_mode" =>
              /\ is_register_mode' = ~is_register_mode
              /\ FieldsAreEmpty'
       /\ (op'.name = "_handle_register" /\ ret' = "True") =>
              /\ is_register_mode
              /\ ~is_register_mode'
              /\ FieldsAreEmpty'
       /\ (\/ op'.name = "_handle_register" /\ ret' # "True"
           \/ op'.name = "_handle_login") =>
              is_register_mode' = is_register_mode]_vars

\* A registration has succeeded: the store holds the student and the form
\* is the empty login form.
C26_Witness ==
    /\ op.name = "_handle_register"
    /\ ret = "True"
    /\ database # <<>>
    /\ ~is_register_mode
    /\ FieldsAreEmpty
    /\ form.mode_button = "Switch to Register"
    /\ ~form.name_visible

\* C25: whenever the login view is the current view, after a logout from
\* the student view as after any other navigation to it, the current student
\* of the application, of the student view and of the subject controller
\* are all None.
C25_LoginViewHasNoStudent ==
    current_view = "login" =>
        /\ app_current_student = NoStudent
        /\ current_student = NoStudent

\* C30: the student view is the current view only for a stored student
\* whose email and password are the ones the login form held when the login
\* succeeded: the form still holds them, no field is empty, and the view and
\* the application hold that student.
C30_StudentViewNeedsLogin ==
    current_view = "student" =>
        /\ email_field # ""
        /\ password_field # <<>>
        /\ current_student # NoStudent
        /\ current_student.email = email_field
        /\ current_student.password = password_field
        /\ \E i \in 1..Len(database) : database[i] = current_student
        /\ app_current_student = current_student
        /\ ~is_register_mode

\* The second of two registered students is shown its view, after a logout
\* of the first one.
C30_Witness ==
    /\ current_view = "student"
    /\ op.name = "_handle_login"
    /\ Len(database) = 2
    /\ current_student = database[2]
    /\ current_student.email = email_field

\* The file that open(output_file, 'w') writes.
OutputTarget == relpath(output_file)

\* C27: a run of collect_files_content writes one record for every file of
\* the directory tree other than the output file itself, each once, in
\* ascending order of path; the output file is the only file left out.
C27_EveryOtherFileIsCollected ==
    (op.name = "collect_files_content" /\ raised = "none") =>
        /\ Range(out_file) = tree \ {OutputTarget}
        /\ Len(out_file) = Cardinality(Range(out_file))
        /\ \A i \in 1..(Len(out_file) - 1) :
               StrLess(out_file[i], out_file[i + 1])

====
